---- MODULE Spec2Model ----
(***************************************************************************)
(* A model of the workflow-graph runtime of pydantic-graph:                *)
(*   - Graph construction (Graph.__init__, _register_node,                 *)
(*     _validate_edges) over node types whose outcome declaration is       *)
(*     derived by BaseNode.get_node_def;                                   *)
(*   - the execution engine (Graph.next, Graph.run) with its history of    *)
(*     step / end records, each holding a deep copy of the state.          *)
(*                                                                         *)
(* Two specifications share the variables:                                 *)
(*   SpecBuild  the constructor applied to bounded node lists;             *)
(*   Spec       runs of a graph that was built successfully.               *)
(*                                                                         *)
(* Left out: timestamps (start_ts, ts), the logfire spans, the graph name  *)
(* and a node's input_data; none of them is read by the engine.            *)
(***************************************************************************)
EXTENDS Integers, Sequences, FiniteSets, TLC

(***************************************************************************)
(* Bounds of the model.                                                    *)
(***************************************************************************)
\* longest node list handed to the constructor
MaxNodes == 3
\* node computations per run / per call of next
MaxSteps == 2
\* the state object holds one integer field in 0..MaxStateVal
MaxStateVal == 1

None == "None"

(***************************************************************************)
(* The node types the model draws from.  Each stands for a subclass of     *)
(* BaseNode: its class name, its optional node_id class variable, and the  *)
(* members of the return annotation of its run method.  A member is the    *)
(* name of a node type, "End", "BaseNode" (the abstract supertype) or      *)
(* "int" (a type that is none of these).                                   *)
(***************************************************************************)
Classes == {"A", "B", "C", "D", "Z", "Loop", "Wild", "W", "Dup", "Bad"}

\* BaseNode.node_id: ClassVar[str | None]
NodeIdOverride(cls) == IF cls = "Dup" THEN "A" ELSE None

\* the members of the union a node type's run method is annotated to return
ReturnHint(cls) ==
    CASE cls = "A"    -> {"B"}
      [] cls = "B"    -> {"End"}
      [] cls = "C"    -> {"Z", "End"}
      [] cls = "D"    -> {"Z", "B", "Loop"}
      [] cls = "Z"    -> {"End"}
      [] cls = "Loop" -> {"Loop"}
      [] cls = "Wild" -> {"BaseNode", "End"}
      [] cls = "W"    -> {"BaseNode", "Z"}
      [] cls = "Dup"  -> {"End"}
      [] cls = "Bad"  -> {"int", "End"}

\* BaseNode.get_id: the node_id class variable, or the class name
GetId(cls) == IF NodeIdOverride(cls) # None THEN NodeIdOverride(cls) ELSE cls

\* issubclass(return_type_origin, BaseNode)
IsNodeSubclass(t) == t \in Classes

(***************************************************************************)
(* BaseNode.get_node_def: classify every member of the return annotation.  *)
(* The result is the NodeDef, or the TypeError the first unclassifiable    *)
(* member raises.                                                          *)
(***************************************************************************)
\* the else branch `raise TypeError` left out: such a member is skipped
InvalidReturnTypes_Skipped(cls) == {t \in ReturnHint(cls) : FALSE}
\* the members of the return hint that reach `raise TypeError(...)`
InvalidReturnTypes(cls) ==
    {t \in ReturnHint(cls) : t # "BaseNode" /\ ~IsNodeSubclass(t) /\ t # "End"}

\* the branch `return_type_origin is BaseNode` of a member that is left out,
\* so that the supertype is taken for one more successor node type
GetNodeDef_NoWildcardBranch(cls) ==
    IF InvalidReturnTypes(cls) # {}
    THEN [ok |-> FALSE, invalid |-> InvalidReturnTypes(cls), def |-> None]
    ELSE [ok |-> TRUE, invalid |-> {},
          def |-> [node          |-> cls,
                   node_id       |-> GetId(cls),
                   next_node_ids |-> {IF t = "BaseNode" THEN t ELSE GetId(t) :
                                        t \in {u \in ReturnHint(cls) : u # "End"}},
                   can_end       |-> "End" \in ReturnHint(cls),
                   dest_any      |-> FALSE]]

GetNodeDef(cls) ==
    IF InvalidReturnTypes(cls) # {}
    THEN [ok |-> FALSE, invalid |-> InvalidReturnTypes(cls), def |-> None]
    ELSE [ok |-> TRUE, invalid |-> {},
          def |-> [node          |-> cls,
                   node_id       |-> GetId(cls),
                   next_node_ids |-> {GetId(t) : t \in {u \in ReturnHint(cls) :
                                                          IsNodeSubclass(u)}},
                   can_end       |-> "End" \in ReturnHint(cls),
                   dest_any      |-> "BaseNode" \in ReturnHint(cls)]]

(***************************************************************************)
(* Graph._validate_edges reads node_def.next_node_edges, the attribute of  *)
(* the NodeDef of the package pydantic_graph, whose module nodes is not    *)
(* among the sources; the NodeDef that is (pydantic_ai_graph) calls the    *)
(* successor identities next_node_ids.  _validate_edges itself looks at no *)
(* flag, and the specification has a node with the wildcard flag exempt    *)
(* from the check of successor identities as a whole, every other node     *)
(* checked on each successor identity it declares: the keys of             *)
(* next_node_edges are taken to be none for a node with the wildcard flag  *)
(* and the declared successor identities for every other node.             *)
(***************************************************************************)
\* the declared successor identities kept as edges beside the wildcard flag
NextNodeEdges_AllDeclared(node_def) == node_def.next_node_ids
NextNodeEdges(node_def) ==
    IF node_def.dest_any THEN {} ELSE node_def.next_node_ids

(***************************************************************************)
(* Graph.node_defs is a dict: here the sequence of its values in insertion *)
(* order.                                                                  *)
(***************************************************************************)
Keys(node_defs) == {node_defs[i].node_id : i \in DOMAIN node_defs}

\* self.node_defs.get(node_id), for a key that is present
Lookup(node_defs, node_id) ==
    node_defs[CHOOSE i \in DOMAIN node_defs : node_defs[i].node_id = node_id]

NoError == [kind |-> None, node_id |-> None, found_on |-> <<>>,
            invalid |-> {}, bad_edges |-> <<>>, plural |-> FALSE]

DuplicateError(node_id, existing, node) ==
    [NoError EXCEPT !.kind = "GraphSetupError", !.node_id = node_id,
                    !.found_on = <<existing, node>>]

InvalidReturnError(node, invalid) ==
    [NoError EXCEPT !.kind = "TypeError", !.node_id = GetId(node),
                    !.invalid = invalid]

BadEdgesError(bad_edges) ==
    [NoError EXCEPT !.kind = "GraphSetupError", !.bad_edges = bad_edges,
                    !.plural = (Cardinality(DOMAIN bad_edges) # 1)]

(***************************************************************************)
(* Graph._register_node on the registry built so far.  g is the            *)
(* constructor's progress: [node_defs, error], error = NoError while no    *)
(* exception was raised.                                                   *)
(***************************************************************************)
\* the duplicate check left out: a later type silently replaces the earlier
RegisterNode_Overwrite(g, node) ==
    IF g.error # NoError THEN g
    ELSE IF ~GetNodeDef(node).ok
    THEN [g EXCEPT !.error = InvalidReturnError(node, GetNodeDef(node).invalid)]
    ELSE IF GetId(node) \in Keys(g.node_defs)
    THEN [g EXCEPT !.node_defs =
            [i \in DOMAIN g.node_defs |->
               IF g.node_defs[i].node_id = GetId(node)
               THEN GetNodeDef(node).def ELSE g.node_defs[i]]]
    ELSE [g EXCEPT !.node_defs = Append(g.node_defs, GetNodeDef(node).def)]

RegisterNode(g, node) ==
    IF g.error # NoError THEN g
    ELSE IF GetId(node) \in Keys(g.node_defs)
    THEN [g EXCEPT !.error =
            DuplicateError(GetId(node), Lookup(g.node_defs, GetId(node)).node, node)]
    ELSE IF ~GetNodeDef(node).ok
    THEN [g EXCEPT !.error = InvalidReturnError(node, GetNodeDef(node).invalid)]
    ELSE [g EXCEPT !.node_defs = Append(g.node_defs, GetNodeDef(node).def)]

\* the loop `for node in nodes: self._register_node(node, parent_namespace)`
RECURSIVE RegisterAll(_, _)
RegisterAll(g, nodes) ==
    IF nodes = <<>> THEN g
    ELSE RegisterAll(RegisterNode(g, Head(nodes)), Tail(nodes))

(***************************************************************************)
(* Graph._validate_edges: bad_edges maps every successor identity that is  *)
(* no key of node_defs to the list of the identities of the nodes that     *)
(* declare it, in registration order.                                      *)
(***************************************************************************)
\* the subsequence of the node ids of node_defs whose node declares edge
RECURSIVE Referrers(_, _)
Referrers(node_defs, edge) ==
    IF node_defs = <<>> THEN <<>>
    ELSE (IF edge \in NextNodeEdges(Head(node_defs))
          THEN <<Head(node_defs).node_id>> ELSE <<>>)
         \o Referrers(Tail(node_defs), edge)

BadEdges(node_defs) ==
    LET known_node_ids == Keys(node_defs)
        declared == UNION {NextNodeEdges(node_defs[i]) : i \in DOMAIN node_defs}
    IN  [edge \in declared \ known_node_ids |-> Referrers(node_defs, edge)]

\* raising on the first bad edge found instead of collecting them all
ValidateEdges_FailFast(node_defs) ==
    LET bad == BadEdges(node_defs)
        first == CHOOSE i \in DOMAIN node_defs :
                    /\ NextNodeEdges(node_defs[i]) \ Keys(node_defs) # {}
                    /\ \A j \in DOMAIN node_defs :
                          NextNodeEdges(node_defs[j]) \ Keys(node_defs) # {} => i <= j
        edge == CHOOSE e \in NextNodeEdges(node_defs[first]) \ Keys(node_defs) : TRUE
    IN  IF DOMAIN bad = {} THEN NoError
        ELSE BadEdgesError([e \in {edge} |-> <<node_defs[first].node_id>>])

ValidateEdges(node_defs) ==
    LET bad_edges == BadEdges(node_defs)
    IN  IF DOMAIN bad_edges = {} THEN NoError ELSE BadEdgesError(bad_edges)

(***************************************************************************)
(* Graph.__init__: register every node type in order, then validate the    *)
(* edges.  The result is [ok, node_defs, error]; no Graph exists when an   *)
(* exception was raised.                                                   *)
(***************************************************************************)
NoGraph == [ok |-> FALSE, node_defs |-> <<>>, error |-> NoError]

\* the edges of what was registered validated even after _register_node
\* raised, and reported with that exception
GraphInit_ReportAll(nodes) ==
    LET g == RegisterAll([node_defs |-> <<>>, error |-> NoError], nodes)
    IN  IF g.error # NoError
        THEN [ok |-> FALSE, node_defs |-> <<>>,
              error |-> [g.error EXCEPT !.bad_edges = BadEdges(g.node_defs)]]
        ELSE IF ValidateEdges(g.node_defs) # NoError
        THEN [ok |-> FALSE, node_defs |-> <<>>, error |-> ValidateEdges(g.node_defs)]
        ELSE [ok |-> TRUE, node_defs |-> g.node_defs, error |-> NoError]

GraphInit(nodes) ==
    LET g == RegisterAll([node_defs |-> <<>>, error |-> NoError], nodes)
    IN  IF g.error # NoError
        THEN [ok |-> FALSE, node_defs |-> <<>>, error |-> g.error]
        ELSE IF ValidateEdges(g.node_defs) # NoError
        THEN [ok |-> FALSE, node_defs |-> <<>>, error |-> ValidateEdges(g.node_defs)]
        ELSE [ok |-> TRUE, node_defs |-> g.node_defs, error |-> NoError]

\* the node lists of length at most n
NodeLists(n) == UNION {[1..k -> Classes] : k \in 0..n}

\* the node lists of the graphs the engine is run on; each builds
RunNodeLists ==
    { <<"A", "B">>, <<"Loop">>, <<"B", "Wild">>, <<"Dup", "B">>, <<"Z", "W">> }

(***************************************************************************)
(* Values a node computation can hand back at run time.  Python does not   *)
(* enforce the return annotation: the computation may return an instance   *)
(* of any node type, an End carrying any data, or a value that is neither. *)
(***************************************************************************)
EndData == {42, 7}

NoValue     == [type |-> "none",  cls |-> None, data |-> 0]
NodeOf(cls) == [type |-> "node",  cls |-> cls,  data |-> 0]
End(d)      == [type |-> "end",   cls |-> None, data |-> d]
Other       == [type |-> "other", cls |-> "str", data |-> 0]
Raised      == [type |-> "raise", cls |-> None, data |-> 0]

NodeInstances == {NodeOf(c) : c \in Classes}
Returns == NodeInstances \cup {End(d) : d \in EndData} \cup {Other}

\* history.insert(0, record) in place of history.append(record)
AppendRecord_Prepend(h, rec) == <<rec>> \o h
\* history.append(record)
\* the record put in the place of the last one instead of after it
AppendRecord_Replace(h, rec) ==
    IF h = <<>> THEN <<rec>> ELSE [h EXCEPT ![Len(h)] = rec]
AppendRecord(h, rec) == Append(h, rec)

\* isinstance(next_node, End)
IsInstanceEnd_OrNotNode(v) == v.type # "node"
IsInstanceEnd(v) == v.type = "end"

\* isinstance(next_node, BaseNode)
IsInstanceBaseNode_Never(v) == FALSE
IsInstanceBaseNode(v) == v.type = "node"

\* `node_id not in self.node_defs`, negated
IsRegistered_Always(node_defs, node) == TRUE
IsRegistered(node_defs, node) == GetId(node.cls) \in Keys(node_defs)

(***************************************************************************)
(* The state object and its copies.  A reference is 0 (Python None: the    *)
(* state is absent) or an address into the run's heap; the caller's state  *)
(* object lives at address 1, every deep copy at a fresh address.          *)
(***************************************************************************)
StateVals == 0..MaxStateVal
NoRef == 0
LiveRef == 1

\* AbstractState.deep_copy returning the object itself
DeepCopy_Alias(h, ref) == [heap |-> h, ref |-> ref]
\* AbstractState.deep_copy: copy.deepcopy(self)
DeepCopy(h, ref) == [heap |-> Append(h, h[ref]), ref |-> Len(h) + 1]

\* _deep_copy_state returning its argument
DeepCopyState_Identity(h, ref) == [heap |-> h, ref |-> ref]
\* _deep_copy_state: None for None, state.deep_copy() otherwise
DeepCopyState(h, ref) ==
    IF ref = NoRef THEN [heap |-> h, ref |-> NoRef] ELSE DeepCopy(h, ref)

\* the step record built by NodeEvent(state, node), __post_init__ included
NodeEvent(h, ref, node) ==
    LET copy == DeepCopyState(h, ref)
    IN  [heap |-> copy.heap,
         rec  |-> [kind |-> "step", state |-> copy.ref, node |-> node,
                   result |-> NoValue, duration |-> None]]

\* an end record whose __post_init__ does not copy: it keeps the caller's object
EndEvent_NoCopy(h, ref, result) ==
    [heap |-> h,
     rec  |-> [kind |-> "end", state |-> ref, node |-> NoValue,
               result |-> result, duration |-> None]]
\* the end record built by EndEvent(state, result), __post_init__ included
EndEvent(h, ref, result) ==
    LET copy == DeepCopyState(h, ref)
    IN  [heap |-> copy.heap,
         rec  |-> [kind |-> "end", state |-> copy.ref, node |-> NoValue,
                   result |-> result, duration |-> None]]

(***************************************************************************)
(* The state.  graph is the Graph the constructor produced from nodes.     *)
(* Every other variable is indexed by the caller (Runs) that has a call of *)
(* Graph.run or Graph.next in progress:                                    *)
(*   mode        which entry point was called: "run", "next" or "idle"     *)
(*   pc          where the call stands                                     *)
(*   state       the state argument: NoRef or LiveRef                      *)
(*   heap        the contents of the state object and of its copies        *)
(*   start_node  run's current node (the node argument of next)            *)
(*   next_node   what the node computation returned                        *)
(*   history     the history list                                          *)
(*   result      <<data>> once run has returned, <<>> before               *)
(*   error       the exception that ended the call, None without one       *)
(*   entered     the value the state held when the computation now awaited *)
(*               was invoked                                               *)
(*   calls       the node computations invoked so far, in order: the node, *)
(*               the state's value before and after, what came back        *)
(***************************************************************************)
VARIABLES nodes, graph, mode, pc, state, heap, start_node, next_node,
          history, result, error, calls, entered

(***************************************************************************)
(* The collaborators outside the engine:                                   *)
(*   retriever  a Retriever: max_retries, takes_info and _current_retry    *)
(*   rpc        the calls of Retriever.run that are suspended at the await *)
(*              of the wrapped function: their positions in rtrace         *)
(*   rtrace     what happened to the retriever, in order: each call of     *)
(*              run with what it gave back, each reset, and each end of a  *)
(*              wrapped function                                           *)
(*   diagram    the last call of mermaid.generate_code: its arguments and  *)
(*              what it gave back                                          *)
(*   saved      the last call of mermaid.save_image: its arguments, what   *)
(*              it handed to request_image and what came of it             *)
(***************************************************************************)
VARIABLES retriever, rpc, rtrace, diagram, saved

vars == <<nodes, graph, mode, pc, state, heap, start_node, next_node,
          history, result, error, calls, entered, retriever, rpc, rtrace, diagram,
          saved>>
toolVars == <<retriever, rpc, rtrace, diagram, saved>>
graphVars == <<nodes, graph>>
runVars == <<mode, pc, state, heap, start_node, next_node,
             history, result, error, calls, entered>>

Runs == {1, 2}
\* the callers that act in Spec
ActiveRuns == {1}

\* no computation is awaited
NotEntered == -2

InitRuns ==
    /\ mode = [r \in Runs |-> "idle"]
    /\ pc = [r \in Runs |-> "idle"]
    /\ state = [r \in Runs |-> NoRef]
    /\ heap = [r \in Runs |-> <<>>]
    /\ start_node = [r \in Runs |-> NoValue]
    /\ next_node = [r \in Runs |-> NoValue]
    /\ history = [r \in Runs |-> <<>>]
    /\ result = [r \in Runs |-> <<>>]
    /\ error = [r \in Runs |-> None]
    /\ calls = [r \in Runs |-> <<>>]
    /\ entered = [r \in Runs |-> NotEntered]

\* a Retriever that was never called, and no diagram asked for
NoDiagram == [called |-> FALSE, start_node |-> <<>>, highlighted_nodes |-> <<>>,
              ok |-> FALSE, error |-> None, lines |-> <<>>]

\* save_image not called
NoSaved == [called |-> FALSE, path |-> <<>>, kwargs |-> <<>>,
            request_kwargs |-> <<>>,
            request |-> [ok |-> FALSE, error |-> None, sent |-> FALSE,
                         url |-> None, type |-> <<>>],
            written |-> FALSE]

InitTools ==
    /\ retriever = [max_retries |-> 0, takes_info |-> FALSE, current_retry |-> 0]
    /\ rpc = {}
    /\ rtrace = <<>>
    /\ diagram = NoDiagram
    /\ saved = NoSaved

\* the value of the state object behind a reference; None for an absent state
Deref(h, ref) == IF ref = NoRef THEN -1 ELSE h[ref]

(***************************************************************************)
(* SpecBuild: Graph(nodes=...) on every node list of at most MaxNodes      *)
(* types.                                                                  *)
(***************************************************************************)
InitBuild ==
    /\ nodes = <<>>
    /\ graph = NoGraph
    /\ InitRuns
    /\ InitTools

\* the constructor is called once on each list
Build(ns) ==
    /\ graph = NoGraph
    /\ nodes' = ns
    /\ graph' = GraphInit(ns)
    /\ UNCHANGED <<runVars, toolVars>>

NextBuild == \E ns \in NodeLists(MaxNodes) : Build(ns)

SpecBuild == InitBuild /\ [][NextBuild]_vars

(***************************************************************************)
(* Spec: the engine on a graph that was built.                             *)
(***************************************************************************)
Init ==
    /\ nodes \in RunNodeLists
    /\ graph = GraphInit(nodes)
    /\ graph.ok
    /\ InitRuns
    /\ InitTools

Finished(r) == pc[r] \in {"done", "next_done", "error", "failed"}

\* the caller's arguments: state is None (absent) or an object holding v
Enter(r, m, absent, v, node) ==
    /\ pc[r] = "idle"
    /\ mode' = [mode EXCEPT ![r] = m]
    /\ pc' = [pc EXCEPT ![r] = "check"]
    /\ state' = [state EXCEPT ![r] = IF absent THEN NoRef ELSE LiveRef]
    /\ heap' = [heap EXCEPT ![r] = IF absent THEN <<>> ELSE <<v>>]
    /\ start_node' = [start_node EXCEPT ![r] = node]
    /\ next_node' = [next_node EXCEPT ![r] = NoValue]
    /\ history' = [history EXCEPT ![r] = <<>>]
    /\ result' = [result EXCEPT ![r] = <<>>]
    /\ error' = [error EXCEPT ![r] = None]
    /\ calls' = [calls EXCEPT ![r] = <<>>]
    /\ entered' = [entered EXCEPT ![r] = NotEntered]
    /\ UNCHANGED <<graphVars, toolVars>>

\* Graph.run(state, start_node) is called: history = []
RunStart(r) ==
    \E absent \in BOOLEAN, v \in StateVals, node \in NodeInstances :
        /\ absent => v = 0
        /\ Enter(r, "run", absent, v, node)

\* Graph.next(state, node, history) is called by the caller, on an empty history
CallNext(r) ==
    \E absent \in BOOLEAN, v \in StateVals, node \in NodeInstances :
        /\ absent => v = 0
        /\ Enter(r, "next", absent, v, node)

\* the history kept on the Graph instead of in the call: the step record of
\* one run is appended to the history of every run
NextCheck_SharedHistory(r) ==
    /\ pc[r] = "check"
    /\ IsRegistered(graph.node_defs, start_node[r]) => Len(calls[r]) < MaxSteps
    /\ IF ~IsRegistered(graph.node_defs, start_node[r])
       THEN /\ error' = [error EXCEPT ![r] = "GraphRuntimeError: not in the graph"]
            /\ pc' = [pc EXCEPT ![r] = "error"]
            /\ UNCHANGED <<heap, history, entered>>
       ELSE LET ev == NodeEvent(heap[r], state[r], start_node[r])
            IN  /\ heap' = [heap EXCEPT ![r] = ev.heap]
                /\ history' = [q \in Runs |-> AppendRecord(history[q], ev.rec)]
                /\ pc' = [pc EXCEPT ![r] = "awaiting"]
                /\ entered' = [entered EXCEPT ![r] = Deref(heap[r], state[r])]
                /\ UNCHANGED error
    /\ UNCHANGED <<graphVars, toolVars, mode, state, start_node, next_node, result, calls>>

\* Graph.next up to the await: the registry check, then the step record
NextCheck(r) ==
    /\ pc[r] = "check"
    /\ IsRegistered(graph.node_defs, start_node[r]) => Len(calls[r]) < MaxSteps
    /\ IF ~IsRegistered(graph.node_defs, start_node[r])
       THEN /\ error' = [error EXCEPT ![r] = "GraphRuntimeError: not in the graph"]
            /\ pc' = [pc EXCEPT ![r] = "error"]
            /\ UNCHANGED <<heap, history, entered>>
       ELSE LET ev == NodeEvent(heap[r], state[r], start_node[r])
            IN  /\ heap' = [heap EXCEPT ![r] = ev.heap]
                /\ history' = [history EXCEPT ![r] = AppendRecord(@, ev.rec)]
                /\ pc' = [pc EXCEPT ![r] = "awaiting"]
                /\ entered' = [entered EXCEPT ![r] = Deref(heap[r], state[r])]
                /\ UNCHANGED error
    /\ UNCHANGED <<graphVars, toolVars, mode, state, start_node, next_node, result, calls>>

\* what the computation does to the live state object: any new value, or,
\* for an absent state, nothing
Mutations(r) == IF state[r] = NoRef THEN {-1} ELSE StateVals

\* the computation given a copy of the state: its writes are lost
Mutate_OnCopy(h, ref, v) == h
\* a write through ctx.state, or through the caller's own reference
Mutate(h, ref, v) == IF ref = NoRef THEN h ELSE [h EXCEPT ![ref] = v]

\* while `await node.run(ctx)` is suspended the live state object is written:
\* by the computation through ctx.state before it awaits something of its
\* own, or by the caller, who holds the same object
NodeWrite(r) ==
    /\ pc[r] = "awaiting"
    /\ state[r] # NoRef
    /\ \E v \in StateVals :
        /\ v # heap[r][state[r]]
        /\ heap' = [heap EXCEPT ![r] = Mutate(@, state[r], v)]
    /\ UNCHANGED <<graphVars, toolVars, mode, pc, state, start_node, next_node,
                   history, result, error, calls, entered>>

\* `await node.run(ctx)` completes: the computation writes the live state
\* through ctx.state a last time, or leaves it as it is, and returns ret
NodeRun(r) ==
    /\ pc[r] = "awaiting"
    /\ \E ret \in Returns, v \in Mutations(r) :
        /\ heap' = [heap EXCEPT ![r] = Mutate(@, state[r], v)]
        /\ calls' = [calls EXCEPT ![r] =
                        Append(@, [node |-> start_node[r],
                                   before |-> entered[r],
                                   after |-> v, ret |-> ret])]
        /\ next_node' = [next_node EXCEPT ![r] = ret]
    /\ pc' = [pc EXCEPT ![r] = "returned"]
    /\ entered' = [entered EXCEPT ![r] = NotEntered]
    /\ UNCHANGED <<graphVars, toolVars, mode, state, start_node, history, result, error>>

\* the exception caught by the engine, which runs the same node again
NodeFail_Retry(r) ==
    /\ pc[r] = "awaiting"
    /\ \E v \in Mutations(r) :
        /\ heap' = [heap EXCEPT ![r] = Mutate(@, state[r], v)]
        /\ calls' = [calls EXCEPT ![r] =
                        Append(@, [node |-> start_node[r],
                                   before |-> entered[r],
                                   after |-> v, ret |-> Raised])]
    /\ Len(calls[r]) + 1 < MaxSteps
    /\ UNCHANGED <<graphVars, toolVars, mode, pc, state, start_node, next_node,
                   history, result, error, entered>>

\* `await node.run(ctx)` raises, or is cancelled: the exception leaves next
\* and run
NodeFail(r) ==
    /\ pc[r] = "awaiting"
    /\ \E v \in Mutations(r) :
        /\ heap' = [heap EXCEPT ![r] = Mutate(@, state[r], v)]
        /\ calls' = [calls EXCEPT ![r] =
                        Append(@, [node |-> start_node[r],
                                   before |-> entered[r],
                                   after |-> v, ret |-> Raised])]
    /\ error' = [error EXCEPT ![r] = "node computation raised"]
    /\ pc' = [pc EXCEPT ![r] = "failed"]
    /\ entered' = [entered EXCEPT ![r] = NotEntered]
    /\ UNCHANGED <<graphVars, toolVars, mode, state, start_node, next_node, history, result>>

\* the duration written into the first record of the history instead of
\* history_step
SetDuration_First(h) == [h EXCEPT ![1].duration = "measured"]
\* the assignment left out
SetDuration_Skip(h) == h
\* history_step.duration = perf_counter() - start
SetDuration(h) == [h EXCEPT ![Len(h)].duration = "measured"]

\* Graph.next after the await: the duration is written, next_node returned
NextReturn(r) ==
    /\ pc[r] = "returned"
    /\ history' = [history EXCEPT ![r] = SetDuration(@)]
    /\ pc' = [pc EXCEPT ![r] = IF mode[r] = "run" THEN "dispatch" ELSE "next_done"]
    /\ UNCHANGED <<graphVars, toolVars, mode, state, heap, start_node, next_node,
                   result, error, calls, entered>>

\* Graph.run on what next returned
RunDispatch(r) ==
    /\ pc[r] = "dispatch"
    /\ IF IsInstanceEnd(next_node[r])
       THEN LET ev == EndEvent(heap[r], state[r], next_node[r])
            IN  /\ heap' = [heap EXCEPT ![r] = ev.heap]
                /\ history' = [history EXCEPT ![r] = AppendRecord(@, ev.rec)]
                /\ result' = [result EXCEPT ![r] = <<next_node[r].data>>]
                /\ pc' = [pc EXCEPT ![r] = "done"]
                /\ UNCHANGED <<start_node, error>>
       ELSE IF IsInstanceBaseNode(next_node[r])
       THEN /\ start_node' = [start_node EXCEPT ![r] = next_node[r]]
            /\ pc' = [pc EXCEPT ![r] = "check"]
            /\ UNCHANGED <<heap, history, result, error>>
       ELSE /\ error' = [error EXCEPT ![r] = "GraphRuntimeError: invalid node return type"]
            /\ pc' = [pc EXCEPT ![r] = "error"]
            /\ UNCHANGED <<heap, history, result, start_node>>
    /\ UNCHANGED <<graphVars, toolVars, mode, state, next_node, calls, entered>>

\* after the call has ended the caller mutates its state object
CallerMutate(r) ==
    /\ Finished(r)
    /\ state[r] # NoRef
    /\ \E v \in StateVals :
        /\ v # heap[r][state[r]]
        /\ heap' = [heap EXCEPT ![r] = Mutate(@, state[r], v)]
    /\ UNCHANGED <<graphVars, toolVars, mode, pc, state, start_node, next_node,
                   history, result, error, calls, entered>>

\* the caller lets go of what the call gave it and is free to call again
Forget(r) ==
    /\ Finished(r)
    /\ mode' = [mode EXCEPT ![r] = "idle"]
    /\ pc' = [pc EXCEPT ![r] = "idle"]
    /\ state' = [state EXCEPT ![r] = NoRef]
    /\ heap' = [heap EXCEPT ![r] = <<>>]
    /\ start_node' = [start_node EXCEPT ![r] = NoValue]
    /\ next_node' = [next_node EXCEPT ![r] = NoValue]
    /\ history' = [history EXCEPT ![r] = <<>>]
    /\ result' = [result EXCEPT ![r] = <<>>]
    /\ error' = [error EXCEPT ![r] = None]
    /\ calls' = [calls EXCEPT ![r] = <<>>]
    /\ entered' = [entered EXCEPT ![r] = NotEntered]
    /\ UNCHANGED <<graphVars, toolVars>>

Next ==
    \E r \in ActiveRuns :
        \/ RunStart(r)
        \/ CallNext(r)
        \/ NextCheck(r)
        \/ NodeWrite(r)
        \/ NodeRun(r)
        \/ NodeFail(r)
        \/ NextReturn(r)
        \/ RunDispatch(r)
        \/ CallerMutate(r)
        \/ Forget(r)

Spec == Init /\ [][Next]_vars

\* the engine's own steps run to the next await without being suspended
EngineStep(r) == NextCheck(r) \/ NextReturn(r) \/ RunDispatch(r)
FairSpec == Spec /\ \A r \in ActiveRuns : WF_vars(EngineStep(r))

(***************************************************************************)
(* Vocabulary of the properties.                                           *)
(***************************************************************************)
\* the value held by the state snapshot of the i-th history record of r;
\* -1 stands for an absent snapshot (None)
Snapshot(r, i) == Deref(heap[r], history[r][i].state)

EndRecords(r) == {i \in DOMAIN history[r] : history[r][i].kind = "end"}

RunDone(r) == mode[r] = "run" /\ pc[r] = "done"

\* a node computation of run r has handed back an End that run has not yet seen
EndReturned(r) ==
    /\ mode[r] = "run"
    /\ pc[r] \in {"returned", "dispatch"}
    /\ next_node[r].type = "end"

(***************************************************************************)
(* C1.  Whenever the node computations of a run come to return an End, the *)
(* run terminates; and the history a run returns holds one step record per *)
(* node computation executed, in execution order, followed by exactly one  *)
(* end record, which is its last element: its length is the number of      *)
(* computations plus one.                                                  *)
(***************************************************************************)
C1_HistoryShape(r) ==
    /\ Len(history[r]) = Len(calls[r]) + 1
    /\ \A k \in 1..Len(calls[r]) :
          /\ history[r][k].kind = "step"
          /\ history[r][k].node = calls[r][k].node
          /\ k > 1 => calls[r][k].node = calls[r][k - 1].ret
    /\ history[r][Len(history[r])].kind = "end"
    /\ EndRecords(r) = {Len(history[r])}

C1_RunTerminates ==
    /\ [](\A r \in Runs : RunDone(r) => C1_HistoryShape(r))
    /\ \A r \in Runs : EndReturned(r) ~> RunDone(r)

\* a run that has returned after two node computations
C1_Witness == \E r \in Runs : RunDone(r) /\ Len(calls[r]) = 2

(***************************************************************************)
(* C2.  Snapshot isolation: the state snapshot of a history record is an   *)
(* object of its own, never the caller's state object, and no step of the  *)
(* system (a later node computation, a later record, the caller's own      *)
(* mutation) changes the snapshot of a record already in the history; when *)
(* the state is absent, so is every snapshot.                              *)
(***************************************************************************)
C2_SnapshotsAreCopies ==
    \A r \in Runs : \A i \in DOMAIN history[r] :
        IF state[r] = NoRef
        THEN history[r][i].state = NoRef
        ELSE /\ history[r][i].state \notin {NoRef, LiveRef}
             /\ \A j \in DOMAIN history[r] :
                   j # i => history[r][j].state # history[r][i].state

C2_SnapshotsFrozen ==
    \A r \in Runs : \A i \in DOMAIN history[r] :
        i \in DOMAIN history'[r] =>
            /\ history'[r][i].state = history[r][i].state
            /\ Snapshot(r, i)' = Snapshot(r, i)

C2_SnapshotIsolation == [](C2_SnapshotsAreCopies) /\ [][C2_SnapshotsFrozen]_vars

\* a record whose snapshot differs from what the live state object now holds:
\* the state was mutated after the record was created
C2_Witness ==
    \E r \in Runs : \E i \in DOMAIN history[r] :
        /\ state[r] # NoRef
        /\ Snapshot(r, i) # heap[r][LiveRef]

(***************************************************************************)
(* C3.  The graph built from [A, B], run with an absent state from an A    *)
(* instance, A's computation returning a B instance and B's computation    *)
(* returning End(42).                                                      *)
(***************************************************************************)
\* the call of r that has ended is that run: every computation invoked did
\* what the example says, and the first one was A's
C3_Example(r) ==
    /\ nodes = <<"A", "B">>
    /\ mode[r] = "run"
    /\ Finished(r)
    /\ state[r] = NoRef
    /\ calls[r] # <<>>
    /\ calls[r][1].node = NodeOf("A")
    /\ \A k \in DOMAIN calls[r] :
          /\ calls[r][k].node \in {NodeOf("A"), NodeOf("B")}
          /\ calls[r][k].node = NodeOf("A") => calls[r][k].ret = NodeOf("B")
          /\ calls[r][k].node = NodeOf("B") => calls[r][k].ret = End(42)

C3_StepRecord(cls) ==
    [kind |-> "step", state |-> NoRef, node |-> NodeOf(cls),
     result |-> NoValue, duration |-> "measured"]

C3_EndRecord ==
    [kind |-> "end", state |-> NoRef, node |-> NoValue,
     result |-> End(42), duration |-> None]

\* C3 as stated: the result is 42 and the history is the 2 records
\* [step(A), end(42)]
C3_Original ==
    \A r \in Runs : C3_Example(r) =>
        /\ pc[r] = "done"
        /\ result[r] = <<42>>
        /\ history[r] = <<C3_StepRecord("A"), C3_EndRecord>>

\* C3 as amended: the result is 42 and the history is the 3 records
\* [step(A), step(B), end(42)]: B's computation is a step of the run too
C3_ExampleRun ==
    \A r \in Runs : C3_Example(r) =>
        /\ pc[r] = "done"
        /\ result[r] = <<42>>
        /\ history[r] = <<C3_StepRecord("A"), C3_StepRecord("B"), C3_EndRecord>>

C3_Witness == \E r \in Runs : C3_Example(r) /\ pc[r] = "done"

(***************************************************************************)
(* C7.  Graph.next on a node whose identity is no key of node_defs raises  *)
(* the runtime error and does nothing else: the step that finds the node   *)
(* unregistered leaves the history, the state object and its copies, and   *)
(* the list of invoked computations as they were, and no computation of a  *)
(* node with an unregistered identity is ever invoked or recorded.         *)
(***************************************************************************)
C7_Unregistered(r) == GetId(start_node[r].cls) \notin Keys(graph.node_defs)

C7_RaisesFirst ==
    \A r \in Runs :
        (pc[r] = "check" /\ C7_Unregistered(r) /\ pc'[r] # pc[r]) =>
            /\ pc'[r] = "error"
            /\ error'[r] = "GraphRuntimeError: not in the graph"
            /\ history'[r] = history[r]
            /\ heap'[r] = heap[r]
            /\ calls'[r] = calls[r]
            /\ result'[r] = <<>>

C7_OnlyRegisteredRun ==
    \A r \in Runs :
        /\ \A k \in DOMAIN calls[r] :
              GetId(calls[r][k].node.cls) \in Keys(graph.node_defs)
        /\ \A i \in DOMAIN history[r] :
              history[r][i].kind = "step" =>
                  GetId(history[r][i].node.cls) \in Keys(graph.node_defs)
        /\ pc[r] \in {"awaiting", "returned"} => ~C7_Unregistered(r)

C7_NextRejectsUnregistered == [](C7_OnlyRegisteredRun) /\ [][C7_RaisesFirst]_vars

\* next has raised on an unregistered node that an earlier computation of the
\* run returned, with a present state and a record already in the history
C7_Witness ==
    \E r \in Runs :
        /\ pc[r] = "error"
        /\ error[r] = "GraphRuntimeError: not in the graph"
        /\ C7_Unregistered(r)
        /\ state[r] # NoRef
        /\ Len(history[r]) = 1

(***************************************************************************)
(* C8.  The step record of a node is in the history before the node's      *)
(* computation completes, and its snapshot holds the state as it was       *)
(* before that computation: while the computation is awaited the last      *)
(* record is the node's step record, without a duration, holding the value *)
(* the state had when the computation was invoked, whatever has been       *)
(* written to the live state since; and for every computation invoked, the *)
(* snapshot of its step record is the value the state had before it,       *)
(* whatever the computation made of the state.                             *)
(***************************************************************************)
C8_RecordedBeforeRun ==
    \A r \in Runs :
        /\ pc[r] = "awaiting" =>
              /\ Len(history[r]) = Len(calls[r]) + 1
              /\ history[r][Len(history[r])].kind = "step"
              /\ history[r][Len(history[r])].node = start_node[r]
              /\ history[r][Len(history[r])].duration = None
              /\ Snapshot(r, Len(history[r])) = entered[r]
        /\ \A k \in DOMAIN calls[r] :
              /\ k \in DOMAIN history[r]
              /\ history[r][k].kind = "step"
              /\ history[r][k].node = calls[r][k].node
              /\ Snapshot(r, k) = calls[r][k].before

\* a computation that changed the state, its step record holding the old
\* value, and the next computation suspended after a write of its own, its
\* step record holding the value it found
C8_Witness ==
    \E r \in Runs : \E k \in DOMAIN calls[r] :
        /\ calls[r][k].before # calls[r][k].after
        /\ Snapshot(r, k) = calls[r][k].before
        /\ pc[r] = "awaiting"
        /\ entered[r] = calls[r][k].after
        /\ heap[r][LiveRef] # entered[r]
        /\ Snapshot(r, Len(history[r])) = entered[r]

(***************************************************************************)
(* C9.  When run has returned, the value it returned is the data of the    *)
(* End the last computation handed back, and the last history record is    *)
(* the end record carrying that same End and a snapshot of the state as    *)
(* the last computation left it (absent for an absent state), whatever the *)
(* caller does to the state afterwards.                                    *)
(***************************************************************************)
C9_EndRecord ==
    \A r \in Runs : RunDone(r) =>
        LET last == calls[r][Len(calls[r])]
            m == Len(history[r])
        IN  /\ last.ret.type = "end"
            /\ result[r] = <<last.ret.data>>
            /\ history[r][m].kind = "end"
            /\ history[r][m].result = last.ret
            /\ Snapshot(r, m) = last.after
            /\ state[r] = NoRef <=> history[r][m].state = NoRef

\* a run has returned, its last computation changed the state, and the caller
\* has since changed the state again
C9_Witness ==
    \E r \in Runs :
        /\ RunDone(r)
        /\ state[r] # NoRef
        /\ calls[r][Len(calls[r])].before # calls[r][Len(calls[r])].after
        /\ heap[r][LiveRef] # calls[r][Len(calls[r])].after

(***************************************************************************)
(* C10.  A run whose node computation returns a value that is neither an   *)
(* End nor an instance of a node whose identity is registered (the test    *)
(* Graph.next makes is on the identity) ends in a runtime error: it        *)
(* returns no result, appends no end record and invokes no further         *)
(* computation; no computation of a node with an unregistered identity is  *)
(* ever invoked, and an end record is in the history only of a run that    *)
(* returned.                                                               *)
(***************************************************************************)
C10_BadReturn(v) ==
    /\ v.type # "end"
    /\ v.type # "raise"
    /\ ~(v.type = "node" /\ GetId(v.cls) \in Keys(graph.node_defs))

C10_InvalidReturnFails ==
    \A r \in Runs : mode[r] = "run" =>
        /\ \A k \in DOMAIN calls[r] :
              /\ GetId(calls[r][k].node.cls) \in Keys(graph.node_defs)
              /\ k < Len(calls[r]) => ~C10_BadReturn(calls[r][k].ret)
        /\ EndRecords(r) # {} => pc[r] = "done"
        /\ (calls[r] # <<>> /\ C10_BadReturn(calls[r][Len(calls[r])].ret)) =>
              /\ pc[r] \in {"returned", "dispatch", "check", "error"}
              /\ result[r] = <<>>
              /\ EndRecords(r) = {}
              /\ Finished(r) =>
                    error[r] \in {"GraphRuntimeError: not in the graph",
                                  "GraphRuntimeError: invalid node return type"}

\* a run that raised because a computation returned a value that is no node
\* and no End
C10_Witness ==
    \E r \in Runs :
        /\ mode[r] = "run"
        /\ pc[r] = "error"
        /\ calls[r] # <<>>
        /\ calls[r][Len(calls[r])].ret = Other
        /\ error[r] = "GraphRuntimeError: invalid node return type"

(***************************************************************************)
(* Vocabulary of the properties of the constructor, read off the node list *)
(* it was given and the declarations of the node types.                    *)
(***************************************************************************)
\* the constructor has been called on nodes
Built == graph # NoGraph

Range(f) == {f[i] : i \in DOMAIN f}

RegisteredIds(ns) == {GetId(ns[i]) : i \in DOMAIN ns}

AllIds == {GetId(c) : c \in Classes}

\* the successor identities a node type declares explicitly
DeclaredSuccessors(cls) == {GetId(t) : t \in ReturnHint(cls) \cap Classes}

DeclaresWildcard(cls) == "BaseNode" \in ReturnHint(cls)

ValidDeclaration(cls) == ReturnHint(cls) \subseteq (Classes \cup {"End", "BaseNode"})

\* positions i < j of two distinct node types with the same identity
DuplicatePairs(ns) ==
    {p \in (DOMAIN ns) \X (DOMAIN ns) :
        /\ p[1] < p[2]
        /\ ns[p[1]] # ns[p[2]]
        /\ GetId(ns[p[1]]) = GetId(ns[p[2]])}

UniqueIds(ns) ==
    \A i, j \in DOMAIN ns : i # j => GetId(ns[i]) # GetId(ns[j])

\* every node type of the list gets registered: the constructor reaches
\* _validate_edges
RegistrationCompletes(ns) ==
    /\ UniqueIds(ns)
    /\ \A i \in DOMAIN ns : ValidDeclaration(ns[i])

\* <<n, e>>: the node type with identity n declares the successor identity e,
\* which no node type of the list has
Dangling(ns) ==
    {d \in AllIds \X AllIds :
        /\ d[2] \notin RegisteredIds(ns)
        /\ \E i \in DOMAIN ns :
              GetId(ns[i]) = d[1] /\ d[2] \in DeclaredSuccessors(ns[i])}

\* the dangling references of the node types that are checked: those that
\* do not declare the wildcard
CheckedDangling(ns) ==
    {d \in Dangling(ns) :
        \E i \in DOMAIN ns :
            /\ GetId(ns[i]) = d[1]
            /\ ~DeclaresWildcard(ns[i])
            /\ d[2] \in DeclaredSuccessors(ns[i])}

(***************************************************************************)
(* C4.  Graph(nodes=...) on a list holding two distinct node types with    *)
(* the same identity produces no Graph; and when that pair is the first    *)
(* thing wrong in the list (nothing before the second of the two types     *)
(* makes the constructor raise), the exception is the setup error that     *)
(* carries the identity and names both types, the one registered first and *)
(* the one that collides with it.                                          *)
(***************************************************************************)
\* nothing before position j raises: the types before it have identities of
\* their own and valid declarations
C4_ReachesPosition(ns, j) ==
    /\ \A k, l \in 1..(j - 1) : k # l => GetId(ns[k]) # GetId(ns[l])
    /\ \A k \in 1..(j - 1) : ValidDeclaration(ns[k])

C4_DuplicateIdentityFails ==
    (Built /\ DuplicatePairs(nodes) # {}) =>
        /\ ~graph.ok
        /\ graph.node_defs = <<>>
        /\ graph.error # NoError
        /\ \A p \in DuplicatePairs(nodes) :
              C4_ReachesPosition(nodes, p[2]) =>
                  /\ graph.error.kind = "GraphSetupError"
                  /\ graph.error.node_id = GetId(nodes[p[2]])
                  /\ graph.error.found_on = <<nodes[p[1]], nodes[p[2]]>>

\* the constructor raised on A and Dup, which share the identity "A", after
\* one other node type had been registered
C4_Witness ==
    /\ Built
    /\ Len(nodes) = 3
    /\ graph.error.kind = "GraphSetupError"
    /\ graph.error.found_on = <<"A", "Dup">>
    /\ <<2, 3>> \in DuplicatePairs(nodes)

C6_WildcardDangling(ns) ==
    {i \in DOMAIN ns :
        /\ DeclaresWildcard(ns[i])
        /\ DeclaredSuccessors(ns[i]) \ RegisteredIds(ns) # {}}

MaxRetries == 2
MaxCalls == 4

\* Retriever.build: the counter starts at the dataclass default 0
RetrieverBuild(retries, takes_info) ==
    [max_retries |-> retries, takes_info |-> takes_info, current_retry |-> 0]

ExceedsRetries_AtLimit(current_retry, max_retries) == current_retry >= max_retries
\* `if self._current_retry > self.max_retries`
ExceedsRetries(current_retry, max_retries) == current_retry > max_retries

\* the limit tested before the failure is counted, and a failure that raises
\* not counted
ValidationFailed_RaiseUncounted(rt) ==
    IF ExceedsRetries(rt.current_retry + 1, rt.max_retries)
    THEN [retriever |-> rt, outcome |-> "raise ValidationError"]
    ELSE [retriever |-> [rt EXCEPT !.current_retry = rt.current_retry + 1],
          outcome   |-> "FunctionValidationError"]

\* the except branch of Retriever.run: count the failure, then raise the
\* validation error or give back a FunctionValidationError message
ValidationFailed(rt) ==
    LET current == rt.current_retry + 1
    IN  [retriever |-> [rt EXCEPT !.current_retry = current],
         outcome   |-> IF ExceedsRetries(current, rt.max_retries)
                       THEN "raise ValidationError"
                       ELSE "FunctionValidationError"]

\* Retriever._call_args: the retry count handed to the function inside
\* CallInfo, when the function takes one
NoCallInfo == -1
CallArgs(rt) == IF rt.takes_info THEN rt.current_retry ELSE NoCallInfo

\* one entry of rtrace: a call of run or of reset, or the end of the wrapped
\* function of the call of run entered at position `call`
RunEntry(valid, before, invoked, retry, outcome) ==
    [op |-> "run", valid |-> valid, before |-> before, invoked |-> invoked,
     retry |-> retry, outcome |-> outcome, call |-> 0]
ResetEntry(before) ==
    [op |-> "reset", valid |-> FALSE, before |-> before, invoked |-> FALSE,
     retry |-> NoCallInfo, outcome |-> "reset", call |-> 0]
EndEntry(op, call, before) ==
    [op |-> op, valid |-> TRUE, before |-> before, invoked |-> FALSE,
     retry |-> NoCallInfo, outcome |-> op, call |-> call]

\* the calls of run and of reset made so far
CallsMade == Cardinality({k \in DOMAIN rtrace : rtrace[k].op \in {"run", "reset"}})

InitRetriever ==
    /\ nodes = <<>>
    /\ graph = NoGraph
    /\ InitRuns
    /\ retriever \in { RetrieverBuild(n, t) : n \in 0..MaxRetries, t \in BOOLEAN }
    /\ rpc = {}
    /\ rtrace = <<>>
    /\ diagram = NoDiagram
    /\ saved = NoSaved

\* Retriever.run on arguments the validator rejects: the except branch has no
\* await, and nothing keeps it from running while other calls are suspended
RunInvalid ==
    /\ CallsMade < MaxCalls
    /\ LET r == ValidationFailed(retriever)
       IN  /\ retriever' = r.retriever
           /\ rtrace' = Append(rtrace, RunEntry(FALSE, retriever.current_retry,
                                                FALSE, NoCallInfo, r.outcome))
    /\ UNCHANGED <<graphVars, runVars, rpc, diagram, saved>>

\* Retriever.run on arguments the validator accepts, up to the await of the
\* wrapped function, where the call is suspended
RunValid ==
    /\ CallsMade < MaxCalls
    /\ rtrace' = Append(rtrace, RunEntry(TRUE, retriever.current_retry, TRUE,
                                         CallArgs(retriever), "pending"))
    /\ rpc' = rpc \cup {Len(rtrace) + 1}
    /\ UNCHANGED <<graphVars, runVars, retriever, diagram, saved>>

\* the wrapped function of the suspended call c returns: the counter is
\* cleared and the content is given back in a FunctionResponse
FunctionReturn(c) ==
    /\ c \in rpc
    /\ retriever' = [retriever EXCEPT !.current_retry = 0]
    /\ rtrace' = Append([rtrace EXCEPT ![c].outcome = "FunctionResponse"],
                        EndEntry("returned", c, retriever.current_retry))
    /\ rpc' = rpc \ {c}
    /\ UNCHANGED <<graphVars, runVars, diagram, saved>>

\* the wrapped function of the suspended call c raises: the exception leaves
\* Retriever.run before the counter is cleared
FunctionRaise(c) ==
    /\ c \in rpc
    /\ rtrace' = Append([rtrace EXCEPT ![c].outcome = "function raised"],
                        EndEntry("raised", c, retriever.current_retry))
    /\ rpc' = rpc \ {c}
    /\ UNCHANGED <<graphVars, runVars, retriever, diagram, saved>>

\* Retriever.reset, whether or not calls of run are suspended
Reset ==
    /\ CallsMade < MaxCalls
    /\ retriever' = [retriever EXCEPT !.current_retry = 0]
    /\ rtrace' = Append(rtrace, ResetEntry(retriever.current_retry))
    /\ UNCHANGED <<graphVars, runVars, rpc, diagram, saved>>

NextRetriever ==
    \/ RunInvalid
    \/ RunValid
    \/ \E c \in rpc : FunctionReturn(c)
    \/ \E c \in rpc : FunctionRaise(c)
    \/ Reset

SpecRetriever == InitRetriever /\ [][NextRetriever]_vars

\* entry k of rtrace is a call of run on failing arguments
FailingCall(k) == rtrace[k].op = "run" /\ ~rtrace[k].valid

\* the calls of run on failing arguments among positions j..i
FailingCalls(j, i) == {k \in j..i : FailingCall(k)}

\* positions j and i of rtrace are calls of run on failing arguments, the
\* first made with the counter at 0, and the caller calls nothing else from j
\* to i: what lies between is further failing calls and the ends of wrapped
\* functions entered earlier, of the kinds in `ends`
FailingStreak(j, i, ends) ==
    /\ j <= i
    /\ FailingCall(j) /\ FailingCall(i)
    /\ rtrace[j].before = 0
    /\ \A k \in j..i : FailingCall(k) \/ rtrace[k].op \in ends

\* what the n-th call of a streak is to give
StreakOutcome(i, n) ==
    /\ ~rtrace[i].invoked
    /\ (n <= retriever.max_retries
            => rtrace[i].outcome = "FunctionValidationError")
    /\ (n = retriever.max_retries + 1
            => rtrace[i].outcome = "raise ValidationError")

\* C11 as stated: with max_retries = N and the counter at 0, consecutive calls
\* of run on failing arguments give a validation-failure message for each of
\* the first N and raise the validation error on call N+1; none of them
\* invokes the wrapped function.
C11_Original ==
    \A i \in DOMAIN rtrace : \A j \in DOMAIN rtrace :
        FailingStreak(j, i, {"returned", "raised"}) =>
            StreakOutcome(i, Cardinality(FailingCalls(j, i)))

\* C11 amended: with max_retries = N and the counter at 0, consecutive calls
\* of run on failing arguments between which no wrapped function of an
\* earlier call returns give a validation-failure message for each of the
\* first N and raise the validation error on call N+1; none of them invokes
\* the wrapped function.
C11_BoundedRetry ==
    \A i \in DOMAIN rtrace : \A j \in DOMAIN rtrace :
        FailingStreak(j, i, {"raised"}) =>
            StreakOutcome(i, Cardinality(FailingCalls(j, i)))

\* a streak of MaxRetries messages followed by the raise has happened while
\* an earlier call of run was suspended, whose function raised within the
\* streak
C11_Witness ==
    /\ retriever.max_retries = MaxRetries
    /\ \E i \in DOMAIN rtrace : \E j \in DOMAIN rtrace :
        /\ FailingStreak(j, i, {"raised"})
        /\ Cardinality(FailingCalls(j, i)) = MaxRetries + 1
        /\ rtrace[i].outcome = "raise ValidationError"
        /\ \E k \in j..i : rtrace[k].op = "raised" /\ rtrace[k].call < j
        /\ \A k \in FailingCalls(j, i) \ {i} :
              rtrace[k].outcome = "FunctionValidationError"


(***************************************************************************)
(* C12.  Graph(nodes=...) on a list in which some node type declares an    *)
(* outcome that is neither a node type, nor End, nor BaseNode itself,      *)
(* produces no Graph; when that declaration is the first thing wrong in    *)
(* the list the exception is the TypeError that carries the offending      *)
(* outcome.  In a Graph that is built, every node's declared outcomes are  *)
(* classified: the node types as successor identities, End as can_end,     *)
(* BaseNode as dest_any.                                                   *)
(***************************************************************************)
C12_InvalidPositions(ns) == {i \in DOMAIN ns : ~ValidDeclaration(ns[i])}

\* nothing before position i raises, and the identity of ns[i] is new, so
\* that ns[i].get_node_def is called
C12_Classified(ns, i) ==
    /\ C4_ReachesPosition(ns, i)
    /\ \A k \in 1..(i - 1) : GetId(ns[k]) # GetId(ns[i])

C12_InvalidOutcomeFails ==
    Built =>
        /\ C12_InvalidPositions(nodes) # {} =>
              /\ ~graph.ok
              /\ graph.node_defs = <<>>
              /\ graph.error # NoError
        /\ \A i \in C12_InvalidPositions(nodes) :
              C12_Classified(nodes, i) =>
                  /\ graph.error.kind = "TypeError"
                  /\ graph.error.invalid # {}
                  /\ graph.error.invalid =
                        ReturnHint(nodes[i]) \ (Classes \cup {"End", "BaseNode"})
        /\ graph.ok =>
              /\ Len(graph.node_defs) = Len(nodes)
              /\ \A i \in DOMAIN nodes :
                    /\ graph.node_defs[i].node = nodes[i]
                    /\ graph.node_defs[i].next_node_ids = DeclaredSuccessors(nodes[i])
                    /\ graph.node_defs[i].can_end <=> "End" \in ReturnHint(nodes[i])
                    /\ graph.node_defs[i].dest_any <=> DeclaresWildcard(nodes[i])

\* the constructor raised the TypeError on Bad, which declares int, after a
\* wildcard node and one more node had been classified
C12_Witness ==
    /\ Built
    /\ Len(nodes) = 3
    /\ nodes[3] = "Bad"
    /\ DeclaresWildcard(nodes[1])
    /\ graph.error.kind = "TypeError"
    /\ graph.error.invalid = {"int"}


(***************************************************************************)
(* C13.  A node list with both a duplicate identity and a dangling         *)
(* successor reference.                                                    *)
(***************************************************************************)
C13_BothProblems(ns) == DuplicatePairs(ns) # {} /\ Dangling(ns) # {}

\* the second position of the first duplicate pair the loop comes to
C13_FirstDuplicate(ns) ==
    CHOOSE j \in DOMAIN ns :
        /\ \E p \in DuplicatePairs(ns) : p[2] = j
        /\ \A p \in DuplicatePairs(ns) : j <= p[2]

\* C13 as stated: the error of the one failed build reports both the
\* duplicate identity and the dangling reference
C13_Original ==
    (Built /\ C13_BothProblems(nodes)) =>
        /\ ~graph.ok
        /\ graph.error.found_on # <<>>
        /\ DOMAIN graph.error.bad_edges = {d[2] : d \in Dangling(nodes)}

\* C13 as amended: the build fails with one exception, raised by the first
\* problem the registration loop comes to; with valid declarations that is
\* the setup error of the first duplicate identity, naming both types.  No
\* dangling reference is reported in that build: the edges are validated only
\* once every node type is registered.
C13_FirstProblemOnly ==
    (Built /\ C13_BothProblems(nodes)) =>
        /\ ~graph.ok
        /\ graph.node_defs = <<>>
        /\ graph.error.kind \in {"GraphSetupError", "TypeError"}
        /\ graph.error.bad_edges = <<>>
        /\ graph.error.kind = "GraphSetupError" => graph.error.found_on # <<>>
        /\ C4_ReachesPosition(nodes, C13_FirstDuplicate(nodes)) =>
              /\ graph.error.kind = "GraphSetupError"
              /\ graph.error.node_id = GetId(nodes[C13_FirstDuplicate(nodes)])
              /\ graph.error.found_on[2] = nodes[C13_FirstDuplicate(nodes)]

\* the constructor raised on the duplicate identity of a list in which a node
\* registered before it declares a successor that is not in the list
C13_Witness ==
    /\ Built
    /\ C13_BothProblems(nodes)
    /\ \A i \in DOMAIN nodes : ValidDeclaration(nodes[i])
    /\ \E d \in Dangling(nodes) : \E i \in 1..(C13_FirstDuplicate(nodes) - 1) :
          GetId(nodes[i]) = d[1]
    /\ graph.error.kind = "GraphSetupError"
    /\ graph.error.found_on # <<>>
    /\ graph.error.bad_edges = <<>>


(***************************************************************************)
(* The diagram renderer (pydantic_graph/mermaid.py): generate_code on a    *)
(* built Graph.  A node identifier is a string or a node type; a line of   *)
(* the diagram is kept as a tuple of its parts.  The node types of the     *)
(* catalogue have no docstring and no edge labels, so no note and no label *)
(* is drawn.                                                               *)
(***************************************************************************)
MaxIdents == 1

Idents == { <<"str", "A">>, <<"type", "B">>, <<"str", "Q">>, <<"type", "Wild">>,
            <<"type", "Z">> }
IdentLists == UNION {[1..k -> Idents] : k \in 0..MaxIdents}

\* _node_ids: a string is its own identity, a node type gives get_id()
NodeIds(node_idents) ==
    [i \in DOMAIN node_idents |->
        IF node_idents[i][1] = "str" THEN node_idents[i][2]
        ELSE GetId(node_idents[i][2])]

\* generate_code(graph, start_node=..., highlighted_nodes=...): [ok, error,
\* lines].  After the start identities are checked, `for node in graph.nodes`
\* reads an attribute the Graph object does not have (the dataclass has the
\* fields name and node_defs, and __init__ sets no other), which raises
\* AttributeError: the body of the loop, the highlighting and the return of
\* the joined lines are never reached, whatever highlighted holds.
GenerateCodeOn(g, start, highlighted) ==
    LET start_node_ids == Range(NodeIds(start))
    IN  IF start_node_ids \ Keys(g.node_defs) # {}
        THEN [ok |-> FALSE, error |-> "LookupError: start node", lines |-> <<>>]
        ELSE [ok |-> FALSE, error |-> "AttributeError: nodes", lines |-> <<>>]

InitMermaid ==
    /\ nodes \in RunNodeLists
    /\ graph = GraphInit(nodes)
    /\ graph.ok
    /\ InitRuns
    /\ InitTools

\* a call of generate_code on the graph
GenerateCode(start, highlighted) ==
    /\ diagram' = GenerateCodeOn(graph, start, highlighted)
                      @@ [called |-> TRUE, start_node |-> start,
                          highlighted_nodes |-> highlighted]
    /\ UNCHANGED <<graphVars, runVars, retriever, rpc, rtrace, saved>>

NextMermaid ==
    \E start \in IdentLists : \E highlighted \in IdentLists :
        GenerateCode(start, highlighted)

SpecMermaid == InitMermaid /\ [][NextMermaid]_vars

\* every requested identity is registered in the graph
AllRequestedRegistered ==
    /\ Range(NodeIds(diagram.start_node)) \subseteq Keys(graph.node_defs)
    /\ Range(NodeIds(diagram.highlighted_nodes)) \subseteq Keys(graph.node_defs)

\* the number of lines of the diagram that are the edge from one identity or
\* marker to another
EdgeCount(from, to) ==
    Cardinality({i \in DOMAIN diagram.lines : diagram.lines[i] = <<from, "-->", to>>})

\* C14: in the diagram generate_code gives back, a node with the wildcard
\* flag has one edge to every registered node, itself included; any other
\* node has exactly one edge per declared successor identity and no other
\* edge to a node; and a node has one edge to the terminal marker exactly
\* when it may terminate.
C14_DiagramEdges ==
    (diagram.called /\ AllRequestedRegistered) =>
        /\ diagram.ok
        /\ \A i \in DOMAIN graph.node_defs : \A j \in DOMAIN graph.node_defs :
              LET d == graph.node_defs[i]
                  to == graph.node_defs[j].node_id
              IN  EdgeCount(d.node_id, to) =
                      IF d.dest_any \/ to \in d.next_node_ids THEN 1 ELSE 0
        /\ \A i \in DOMAIN graph.node_defs :
              EdgeCount(graph.node_defs[i].node_id, "[*]") =
                  IF graph.node_defs[i].can_end THEN 1 ELSE 0

\* C15: generate_code raises the lookup error and gives back no diagram
\* whenever a requested start or highlighted identity is not registered, and
\* gives back the diagram when all of them are registered.
C15_LookupError ==
    diagram.called =>
        IF AllRequestedRegistered
        THEN diagram.ok /\ diagram.lines # <<>>
        ELSE /\ ~diagram.ok
             /\ diagram.lines = <<>>
             /\ diagram.error \in {"LookupError: start node",
                                   "LookupError: highlighted node"}


(***************************************************************************)
(* The history during a call of Graph.run or Graph.next.                   *)
(***************************************************************************)
\* the call of run r is under way: it has neither returned nor raised
Running(r) == pc[r] \in {"check", "awaiting", "returned", "dispatch"}

StepRecords(r) == {i \in DOMAIN history[r] : history[r][i].kind = "step"}

\* the step from history h to g writes the duration of the last record of h,
\* a step record without one, and nothing else
DurationWritten(h, g) ==
    /\ Len(g) = Len(h)
    /\ h # <<>>
    /\ h[Len(h)].kind = "step"
    /\ h[Len(h)].duration = None
    /\ g = [h EXCEPT ![Len(h)].duration = "measured"]

(***************************************************************************)
(* C16.  While a call of run or next is under way, a step of the engine    *)
(* either leaves the history as it is, or appends one record at its end,   *)
(* or writes the duration of the last record: records are never removed,   *)
(* reordered or replaced.  The duration is written into the step record    *)
(* appended last, which had none, when its computation has returned, and   *)
(* it is written by the time next hands the outcome on.                    *)
(***************************************************************************)
C16_AppendOnly ==
    [][\A r \in ActiveRuns :
          Running(r) =>
              /\ \/ history'[r] = history[r]
                 \/ \E rec \in {history'[r][Len(history'[r])]} :
                        history'[r] = Append(history[r], rec)
                 \/ /\ DurationWritten(history[r], history'[r])
                    /\ pc[r] = "returned"
                    /\ Len(calls[r]) = Cardinality(StepRecords(r))
                    /\ calls[r][Len(calls[r])].ret # Raised
              /\ (pc[r] = "returned" /\ pc'[r] # "returned") =>
                    DurationWritten(history[r], history'[r])
              /\ pc[r] # "returned" =>
                    \A i \in DOMAIN history[r] :
                        history'[r][i].duration = history[r][i].duration
      ]_vars

\* the duration of a second step record has been written, the first record
\* lying before it with its own
C16_Witness ==
    \E r \in ActiveRuns :
        /\ pc[r] = "dispatch"
        /\ Len(history[r]) = 2
        /\ history[r][1].kind = "step" /\ history[r][1].duration = "measured"
        /\ history[r][2].kind = "step" /\ history[r][2].duration = "measured"
        /\ history[r][1].node # history[r][2].node

(***************************************************************************)
(* C17.  The computations work on the live state object: what the          *)
(* computation of step k wrote is what the computation of step k+1 finds,  *)
(* and it is what the snapshot of the step record of step k+1, and of the  *)
(* end record after the last step, holds.                                  *)
(***************************************************************************)
C17_LiveState ==
    \A r \in ActiveRuns :
        /\ \A k \in DOMAIN calls[r] :
              /\ (k + 1) \in DOMAIN calls[r] =>
                    calls[r][k + 1].before = calls[r][k].after
              /\ ((k + 1) \in DOMAIN history[r] /\ history[r][k + 1].kind = "step") =>
                    Snapshot(r, k + 1) = calls[r][k].after
        /\ \A e \in EndRecords(r) :
              /\ e = Len(calls[r]) + 1
              /\ Snapshot(r, e) = calls[r][Len(calls[r])].after

\* two steps and the end record, the first computation having changed the
\* state and the second changed it again
C17_Witness ==
    \E r \in ActiveRuns :
        /\ Len(calls[r]) = 2
        /\ Len(history[r]) = 3
        /\ history[r][3].kind = "end"
        /\ calls[r][1].before # calls[r][1].after
        /\ calls[r][2].before = calls[r][1].after
        /\ calls[r][2].after # calls[r][2].before
        /\ Snapshot(r, 2) = calls[r][1].after
        /\ Snapshot(r, 3) = calls[r][2].after


(***************************************************************************)
(* C18.  The graph of the single node Loop, which declares itself as its   *)
(* only successor, run from a Loop whose computation returns a Loop every  *)
(* time: each iteration appends one step record, so that after n           *)
(* computations the history holds n step records (one more while the next  *)
(* computation is awaited) and no end record, and the run has not ended:   *)
(* it has neither returned nor raised.                                     *)
(***************************************************************************)
C18_LoopRun(r) ==
    /\ nodes = <<"Loop">>
    /\ mode[r] = "run"
    /\ start_node[r] = NodeOf("Loop")
    /\ \A k \in DOMAIN calls[r] :
          calls[r][k].node = NodeOf("Loop") /\ calls[r][k].ret = NodeOf("Loop")

C18_StepPerIteration ==
    \A r \in ActiveRuns :
        C18_LoopRun(r) =>
            /\ Running(r)
            /\ result[r] = <<>>
            /\ EndRecords(r) = {}
            /\ StepRecords(r) = DOMAIN history[r]
            /\ \A i \in DOMAIN history[r] : history[r][i].node = NodeOf("Loop")
            /\ Len(history[r]) =
                  Len(calls[r]) + (IF pc[r] = "awaiting" THEN 1 ELSE 0)

\* the loop has gone round as often as the step bound lets it
C18_Witness ==
    \E r \in ActiveRuns :
        /\ C18_LoopRun(r)
        /\ Len(calls[r]) = MaxSteps
        /\ Len(history[r]) = MaxSteps
        /\ pc[r] = "check"

(***************************************************************************)
(* C19.  A node computation that raises, or is cancelled, is the last one  *)
(* of its call: the exception leaves run, which gives back no result; the  *)
(* node is not run again and no other node is run; no end record is        *)
(* appended; the step record of the failing step is the last record of the *)
(* history and has no duration.                                            *)
(***************************************************************************)
C19_FailurePropagates ==
    \A r \in ActiveRuns : \A k \in DOMAIN calls[r] :
        calls[r][k].ret = Raised =>
            /\ k = Len(calls[r])
            /\ pc[r] = "failed"
            /\ error[r] = "node computation raised"
            /\ result[r] = <<>>
            /\ EndRecords(r) = {}
            /\ Len(history[r]) = k
            /\ history[r][k].kind = "step"
            /\ history[r][k].node = calls[r][k].node
            /\ history[r][k].duration = None

\* run failed in its second step, after a first step that went through
C19_Witness ==
    \E r \in ActiveRuns :
        /\ mode[r] = "run"
        /\ pc[r] = "failed"
        /\ Len(calls[r]) = 2
        /\ calls[r][1].ret # Raised
        /\ calls[r][2].ret = Raised
        /\ history[r][1].duration = "measured"
        /\ history[r][2].duration = None

(***************************************************************************)
(* C20.  A call has at most one node computation in flight: a step record  *)
(* without a finished computation exists only while that computation is    *)
(* awaited, and it is the last one; every step record before the last      *)
(* belongs to a computation that has completed and has its duration.       *)
(***************************************************************************)
C20_OneInFlight ==
    \A r \in ActiveRuns :
        LET steps == Cardinality(StepRecords(r))
        IN  /\ StepRecords(r) = 1..steps
            /\ steps - Len(calls[r]) \in {0, 1}
            /\ steps = Len(calls[r]) + 1 <=> pc[r] = "awaiting"
            /\ \A i \in 1..(steps - 1) :
                  /\ history[r][i].duration = "measured"
                  /\ calls[r][i].node = history[r][i].node
                  /\ calls[r][i].ret # Raised

\* the second computation is in flight, the first having completed
C20_Witness ==
    \E r \in ActiveRuns :
        /\ pc[r] = "awaiting"
        /\ Len(history[r]) = 2
        /\ Len(calls[r]) = 1
        /\ history[r][1].duration = "measured"
        /\ history[r][2].duration = None


(***************************************************************************)
(* Two calls of Graph.run on the same Graph, each with a state object of   *)
(* its own (or none), which the event loop interleaves at the awaits of    *)
(* the node computations.  The computations are the ones their return      *)
(* hints allow, and the start nodes are registered.                        *)
(***************************************************************************)
ConcurrentNodeLists == { <<"A", "B">>, <<"Loop">> }

\* what a computation may return according to the return hint of its class
DeclaredReturns(cls) ==
    {NodeOf(t) : t \in ReturnHint(cls) \cap Classes}
    \cup (IF "End" \in ReturnHint(cls) THEN {End(d) : d \in EndData} ELSE {})
    \cup (IF "BaseNode" \in ReturnHint(cls) THEN NodeInstances ELSE {})

InitConcurrent ==
    /\ nodes \in ConcurrentNodeLists
    /\ graph = GraphInit(nodes)
    /\ graph.ok
    /\ InitRuns
    /\ InitTools

\* Graph.run is called from a registered node
ConcurrentStart(r) ==
    /\ RunStart(r)
    /\ IsRegistered(graph.node_defs, start_node'[r])

\* the awaited computation of run r returns what its class declares
ConcurrentNodeRun(r) ==
    /\ NodeRun(r)
    /\ next_node'[r] \in DeclaredReturns(start_node[r].cls)

NextConcurrent ==
    \E r \in Runs :
        \/ ConcurrentStart(r)
        \/ NextCheck(r)
        \/ NodeWrite(r)
        \/ ConcurrentNodeRun(r)
        \/ NodeFail(r)
        \/ NextReturn(r)
        \/ RunDispatch(r)

SpecConcurrent == InitConcurrent /\ [][NextConcurrent]_vars

(***************************************************************************)
(* C21.  Two interleaved runs of one Graph, each with its own state        *)
(* object, do not interfere.  The history of a run holds the step records  *)
(* of its own computations in their order (the node of each and the state  *)
(* that computation found) and, once it has returned, the end record of    *)
(* the End its own last computation returned; its result is the data of    *)
(* that End; and the registry of the Graph is what the constructor built,  *)
(* whatever the runs do.                                                   *)
(***************************************************************************)
C21_NoInterference ==
    /\ graph = GraphInit(nodes)
    /\ \A r \in Runs :
          /\ StepRecords(r) =
                1..(Len(calls[r]) + (IF pc[r] = "awaiting" THEN 1 ELSE 0))
          /\ \A i \in StepRecords(r) :
                /\ i \in DOMAIN calls[r] =>
                      /\ history[r][i].node = calls[r][i].node
                      /\ Snapshot(r, i) = calls[r][i].before
                /\ i \notin DOMAIN calls[r] =>
                      /\ history[r][i].node = start_node[r]
                      /\ Snapshot(r, i) = entered[r]
          /\ pc[r] = "done" <=> EndRecords(r) # {}
          /\ pc[r] = "done" =>
                /\ Len(history[r]) = Len(calls[r]) + 1
                /\ EndRecords(r) = {Len(history[r])}
                /\ history[r][Len(history[r])].result = calls[r][Len(calls[r])].ret
                /\ Snapshot(r, Len(history[r])) = calls[r][Len(calls[r])].after
                /\ result[r] = <<calls[r][Len(calls[r])].ret.data>>
          /\ pc[r] # "done" =>
                /\ result[r] = <<>>
                /\ Len(history[r]) = Cardinality(StepRecords(r))

\* both runs are suspended in a computation, at different nodes and on states
\* with different values, the first of them in its second step and after a
\* write of that computation
C21_Witness ==
    /\ pc[1] = "awaiting" /\ pc[2] = "awaiting"
    /\ Len(calls[1]) = 1 /\ Len(calls[2]) = 0
    /\ Len(history[1]) = 2 /\ Len(history[2]) = 1
    /\ start_node[1] # start_node[2]
    /\ state[1] # NoRef /\ state[2] # NoRef
    /\ Deref(heap[1], state[1]) # Deref(heap[2], state[2])
    /\ Deref(heap[1], state[1]) # entered[1]
    /\ Deref(heap[2], state[2]) = entered[2]


(***************************************************************************)
(* C22.  The retry counter of a Retriever counts the validation failures   *)
(* in a row.                                                               *)
(***************************************************************************)
\* the number of validation failures among the first i entries of rtrace
\* since the last return of a wrapped function or the last reset
RECURSIVE FailuresSince(_)
FailuresSince(i) ==
    IF i = 0 THEN 0
    ELSE IF rtrace[i].op \in {"reset", "returned"} THEN 0
    ELSE IF FailingCall(i) THEN FailuresSince(i - 1) + 1
    ELSE FailuresSince(i - 1)

\* C22: a failing call adds 1 to the counter, also when it raises; a call
\* that validates sets it to 0 when its function returns, and reset sets it
\* to 0; nothing else changes it.  So the counter is the number of failures
\* since the last success or reset, the retry handed to the function in
\* CallInfo is that number, and a failing call raises exactly when the
\* failures since the last success or reset, itself included, exceed
\* max_retries: once over the limit, every further failing call raises until
\* a success or a reset.
C22_CountsFailures ==
    /\ retriever.current_retry = FailuresSince(Len(rtrace))
    /\ \A i \in DOMAIN rtrace :
          /\ rtrace[i].before = FailuresSince(i - 1)
          /\ (rtrace[i].op = "run" /\ rtrace[i].valid) =>
                /\ rtrace[i].invoked
                /\ rtrace[i].retry =
                      IF retriever.takes_info THEN FailuresSince(i - 1) ELSE NoCallInfo
          /\ FailingCall(i) =>
                /\ ~rtrace[i].invoked
                /\ rtrace[i].outcome =
                      IF FailuresSince(i) > retriever.max_retries
                      THEN "raise ValidationError"
                      ELSE "FunctionValidationError"
                /\ FailuresSince(i - 1) > retriever.max_retries =>
                      rtrace[i].outcome = "raise ValidationError"

\* a failing call that got a message, then a call that validated and got 1
\* as its retry, a failing call that raised while that function ran, the
\* return of the function, and a failing call counted from 0 again
C22_Witness ==
    /\ retriever.takes_info
    /\ retriever.max_retries = 1
    /\ Len(rtrace) = 5
    /\ FailingCall(1) /\ rtrace[1].outcome = "FunctionValidationError"
    /\ rtrace[2].valid /\ rtrace[2].retry = 1
    /\ rtrace[2].outcome = "FunctionResponse"
    /\ FailingCall(3) /\ rtrace[3].outcome = "raise ValidationError"
    /\ rtrace[4].op = "returned" /\ rtrace[4].call = 2 /\ rtrace[4].before = 2
    /\ FailingCall(5) /\ rtrace[5].before = 0
    /\ rtrace[5].outcome = "FunctionValidationError"
    /\ retriever.current_retry = 1


(***************************************************************************)
(* mermaid.save_image and mermaid.request_image.  A string is the sequence *)
(* of its characters; kwargs is a function from the keys given to their    *)
(* values, of which image_type and start_node are modelled.                *)
(***************************************************************************)
UpperCase == <<"A", "B", "C", "D", "E", "F", "G", "H", "I", "J", "K", "L", "M",
               "N", "O", "P", "Q", "R", "S", "T", "U", "V", "W", "X", "Y", "Z">>
LowerCase == <<"a", "b", "c", "d", "e", "f", "g", "h", "i", "j", "k", "l", "m",
               "n", "o", "p", "q", "r", "s", "t", "u", "v", "w", "x", "y", "z">>

\* str.lower()
LowerChar(c) ==
    IF \E k \in DOMAIN UpperCase : UpperCase[k] = c
    THEN LowerCase[CHOOSE k \in DOMAIN UpperCase : UpperCase[k] = c]
    ELSE c
Lower(str) == [i \in DOMAIN str |-> LowerChar(str[i])]

\* Path.suffix of a path whose last component is name: from the last dot on,
\* when that dot is neither the first nor the last character
Suffix(name) ==
    LET dots == {i \in DOMAIN name : name[i] = "."}
        last == CHOOSE i \in dots : \A j \in dots : j <= i
    IN  IF dots = {} THEN <<>>
        ELSE IF 1 < last /\ last < Len(name)
        THEN SubSeq(name, last, Len(name))
        ELSE <<>>

\* str[1:]
DropFirst(str) == IF str = <<>> THEN <<>> ELSE Tail(str)

\* the image types, as the strings of MermaidConfig.image_type
Png == <<"p", "n", "g">>
Webp == <<"w", "e", "b", "p">>
Svg == <<"s", "v", "g">>
Pdf == <<"p", "d", "f">>
Jpeg == <<"j", "p", "e", "g">>

InferredTypes == { Png, Webp, Svg, Pdf }
ImageTypes == { Jpeg, Png, Webp, Svg, Pdf }

\* the names of the files save_image is asked to write
PathNames == { <<"a", ".", "p", "n", "g">>,
               <<"a", ".", "P", "N", "G">>,
               <<"b", ".", "W", "e", "b", "p">>,
               <<"a", ".", "s", "v", "g">>,
               <<"a", ".", "P", "d", "f">>,
               <<"a", ".", "j", "p", "g">>,
               <<"a", ".", "j", "p", "e", "g">>,
               <<"a", ".", "t", "x", "t">>,
               <<"a">>,
               <<".", "p", "n", "g">>,
               <<"a", ".", "b", ".", "s", "v", "g">>,
               <<"p", "n", "g">>,
               <<"a", ".", "p", "n", "g", "x">> }

\* an extension not inferred from when it differs from the configured type
SaveImageKwargs_Override(name, kwargs) ==
    LET ext == DropFirst(Lower(Suffix(name)))
    IN  IF ext \in InferredTypes
        THEN [k \in {"image_type"} |-> ext] @@ kwargs
        ELSE kwargs

\* save_image up to the call of request_image: the kwargs it hands on
SaveImageKwargs(name, kwargs) ==
    IF "image_type" \notin DOMAIN kwargs
    THEN LET ext == DropFirst(Lower(Suffix(name)))
         IN  IF ext \in InferredTypes
             THEN kwargs @@ [k \in {"image_type"} |-> ext]
             ELSE kwargs
    ELSE kwargs

\* kwargs.get(key), an empty sequence standing for None
KwargsGet(kwargs, key) == IF key \in DOMAIN kwargs THEN kwargs[key] ELSE <<>>

\* request_image: the diagram code, then the request to mermaid.ink, whose
\* answer is a success or not.  type is the query parameter `type`.
RequestImage(g, kwargs, success) ==
    LET code == GenerateCodeOn(g, KwargsGet(kwargs, "start_node"), <<>>)
        image_type == KwargsGet(kwargs, "image_type")
        url == IF image_type = Pdf THEN "https://mermaid.ink/pdf/"
               ELSE IF image_type = Svg THEN "https://mermaid.ink/svg/"
               ELSE "https://mermaid.ink/img/"
        type == IF image_type \in {Pdf, Svg} THEN <<>> ELSE image_type
    IN  IF ~code.ok
        THEN [ok |-> FALSE, error |-> code.error, sent |-> FALSE,
              url |-> None, type |-> <<>>]
        ELSE [ok |-> success,
              error |-> IF success THEN None ELSE "ValueError: error generating image",
              sent |-> TRUE, url |-> url, type |-> type]

\* the kwargs save_image is called with
SaveKwargs ==
    { it @@ st :
        it \in {<<>>} \cup {[k \in {"image_type"} |-> t] : t \in ImageTypes},
        st \in {<<>>} \cup {[k \in {"start_node"} |-> ids] : ids \in IdentLists \ {<<>>}} }

InitSave ==
    /\ nodes \in RunNodeLists
    /\ graph = GraphInit(nodes)
    /\ graph.ok
    /\ InitRuns
    /\ InitTools

\* a call of save_image(path, graph, **kwargs): the file is written when
\* request_image gave the image back
SaveImage(name, kwargs, success) ==
    /\ ~saved.called
    /\ LET request_kwargs == SaveImageKwargs(name, kwargs)
           request == RequestImage(graph, request_kwargs, success)
       IN  saved' = [called |-> TRUE, path |-> name, kwargs |-> kwargs,
                     request_kwargs |-> request_kwargs,
                     request |-> request, written |-> request.ok]
    /\ UNCHANGED <<graphVars, runVars, retriever, rpc, rtrace, diagram>>

NextSave ==
    \E name \in PathNames, kwargs \in SaveKwargs, success \in BOOLEAN :
        SaveImage(name, kwargs, success)

SpecSave == InitSave /\ [][NextSave]_vars

\* c is the letter l, in either case
SameLetter(c, l) ==
    c = l \/ \E k \in DOMAIN LowerCase : LowerCase[k] = l /\ UpperCase[k] = c

\* name is some characters, a dot and the letters of fmt in any case
HasExtension(name, fmt) ==
    /\ Len(name) > Len(fmt) + 1
    /\ name[Len(name) - Len(fmt)] = "."
    /\ \A i \in 1..Len(fmt) : SameLetter(name[Len(name) - Len(fmt) + i], fmt[i])

\* C23: save_image takes the image format from the extension of the path
\* only when no image_type is configured.  Then, with an extension that is
\* png, webp, svg or pdf in any case, request_image is called with that
\* format as image_type, and with any other extension, or none, image_type
\* stays unset, which the service takes as jpeg; a configured image_type is
\* handed on as it is.  Nothing else of the kwargs changes, and a request
\* that is sent is the one of that format.
C23_InfersImageType ==
    saved.called =>
        /\ \A k \in DOMAIN saved.kwargs \ {"image_type"} :
              k \in DOMAIN saved.request_kwargs
              /\ saved.request_kwargs[k] = saved.kwargs[k]
        /\ DOMAIN saved.request_kwargs \subseteq DOMAIN saved.kwargs \cup {"image_type"}
        /\ IF "image_type" \in DOMAIN saved.kwargs
           THEN /\ "image_type" \in DOMAIN saved.request_kwargs
                /\ saved.request_kwargs["image_type"] = saved.kwargs["image_type"]
           ELSE IF \E fmt \in InferredTypes : HasExtension(saved.path, fmt)
           THEN /\ "image_type" \in DOMAIN saved.request_kwargs
                /\ HasExtension(saved.path, saved.request_kwargs["image_type"])
                /\ saved.request_kwargs["image_type"] \in InferredTypes
           ELSE "image_type" \notin DOMAIN saved.request_kwargs
        /\ saved.request.sent =>
              LET image_type == KwargsGet(saved.request_kwargs, "image_type")
              IN  /\ image_type = Pdf <=> saved.request.url = "https://mermaid.ink/pdf/"
                  /\ image_type = Svg <=> saved.request.url = "https://mermaid.ink/svg/"
                  /\ image_type \notin {Pdf, Svg} => saved.request.type = image_type

\* save_image on a.PNG without an image_type called request_image with png
C23_Witness ==
    /\ saved.called
    /\ saved.path = <<"a", ".", "P", "N", "G">>
    /\ "image_type" \notin DOMAIN saved.kwargs
    /\ "image_type" \in DOMAIN saved.request_kwargs
    /\ saved.request_kwargs["image_type"] = Png

====
